---- MODULE Spec2Model ----
(***************************************************************************)
(* A model of amigos.c, a single-file Gopher server.                       *)
(*                                                                         *)
(* Two specifications share this module:                                   *)
(*                                                                         *)
(*   Spec     the connection supervisor (server_loop), the SIGINT handler  *)
(*            (signal_handler -> server_stop), the handler threads         *)
(*            (server_process_request, its I/O abstracted to outcomes)     *)
(*            and main's epilogue.  LiveSpec is Spec with the fairness     *)
(*            of the threads' scheduling.                                  *)
(*                                                                         *)
(*   SpecTxn  one transaction of server_process_request at byte level:     *)
(*            the request bytes, the selector, the resolved path, the      *)
(*            document root's files and the bytes put on the wire.         *)
(*                                                                         *)
(* SIGINT is taken on the supervisor (main) thread: the handler then runs  *)
(* on top of whatever statement of server_loop was executing.              *)
(***************************************************************************)
EXTENDS Integers, Naturals, Sequences, FiniteSets, TLC

(***************************************************************************)
(* Program constants.                                                      *)
(***************************************************************************)
\* amigos.c:33 is 10; the slot table is scaled down to keep the state space
\* finite and small.  Every statement below is about MAX_CONNECTIONS slots.
MAX_CONNECTIONS == 2

CONN_FINISHED == 1
CONN_INUSE == 2
SOCKERR == -1
\* connections[i].thread = NULL
NULL == 0
\* The descriptor server_start returned; client descriptors are 1..MaxClients.
LISTEN_FD == 0

(***************************************************************************)
(* Bounds of the model.                                                    *)
(***************************************************************************)
\* Clients that ever connect (each gets a fresh descriptor and thread id).
MaxClients == 3
\* SIGINTs delivered to the process.
MaxSigints == 2

Slots == 0 .. (MAX_CONNECTIONS - 1)
Clients == 1 .. MaxClients

\* Exit state of the process: NoExit while it runs.
NoExit == -1

VARIABLES
    \* ---- process-wide state (amigos.c:95-98)
    running,        \* static int running
    server_socket,  \* static sockfd_t server_socket
    connections,    \* static client_conn_t connections[MAX_CONNECTIONS]
    \* ---- operating system
    listenOpen,     \* the listening socket is open
    ncloses,        \* per client descriptor: close() calls that hit it
    nextClient,     \* next client that will connect
    \* ---- supervisor thread (main -> server_loop)
    pc,             \* statement the supervisor is at
    i,              \* server_loop's loop variable
    accepted,       \* value accept() returned, before it is stored
    joining,        \* thread the reap loop's pthread_join was called with
    retval,         \* main's retval
    exitcode,       \* NoExit, or the code main returned
    \* ---- signal handler frame (server_stop) on the supervisor thread
    spc,            \* statement of server_stop, "none" outside it
    si,             \* server_stop's loop variable
    sigcount,       \* SIGINTs delivered so far
    \* ---- handler threads, by thread id (= the client served)
    hpc,            \* statement of server_process_request
    hslot,          \* the slot conn points to
    hfd,            \* conn->sockfd as read by the test at line 479
    hreg            \* conn->status as read by the |= at line 482

srvVars == <<running, server_socket, connections, listenOpen, ncloses,
             nextClient, pc, i, accepted, joining, retval, exitcode, spc, si,
             sigcount, hpc, hslot, hfd, hreg>>

\* One transaction seen byte by byte.
VARIABLES
    tpc,        \* where server_process_request stands
    world,      \* which file system lies under the document root
    req,        \* the bytes the client sent
    len,        \* what recv() returned
    selector,   \* the handler's selector buffer
    fpath,      \* the local path of the request, NullPtr while NULL
    branch,     \* the way the transaction went
    sendret,    \* what the reply's client_send_* call returned
    wire,       \* the send() calls made on the client's socket
    conn        \* the handler's connection slot

\* One gophermap line parsed and one item sent.
VARIABLES
    cur_line,   \* the line handed to gopher_item_parse, NullPtr if none
    cur_item,   \* the item handed to client_send_item, NullPtr if none
    cur_map     \* the lines of docroot/m/gophermap in the world "lines"

\* One call of path_concat.
VARIABLES
    cat_paths,  \* the fragments of the call, up to the closing NULL
    cat_buf,    \* *buf, NullPtr while NULL
    cat_len     \* the value returned, -1 before the call returns

catVars == <<cat_paths, cat_buf, cat_len>>

itemVars == <<cur_line, cur_item, cur_map, catVars>>

txnVars == <<tpc, world, req, len, selector, fpath, branch, sendret, wire,
             conn>>

vars == <<srvVars, txnVars, itemVars>>

\* A char* that is NULL.
NullPtr == <<"NULL">>

\* No call of path_concat is looked at.
CatIdle == cat_paths = <<>> /\ cat_buf = NullPtr /\ cat_len = -1

\* Spec runs no transaction.
TxnIdle ==
    /\ tpc = "idle" /\ world = "plain" /\ req = <<>> /\ len = 0
    /\ selector = <<>> /\ fpath = NullPtr /\ branch = "none"
    /\ sendret = FALSE /\ wire = <<>>
    /\ conn = [status |-> 0, sockfd |-> SOCKERR]
    /\ cur_line = NullPtr /\ cur_item = NullPtr /\ cur_map = <<>>
    /\ CatIdle

(***************************************************************************)
(* Status flags.                                                           *)
(***************************************************************************)
HasFlag(s, f) == (s \div f) % 2 = 1
SetFlag(s, f) == IF HasFlag(s, f) THEN s ELSE s + f

\* Lifecycle state of a slot as the spec names it.
FREE == "FREE"
IN_USE == "IN_USE"
FINISHED == "FINISHED"
Lifecycle(s) ==
    IF HasFlag(s, CONN_FINISHED) THEN FINISHED
    ELSE IF HasFlag(s, CONN_INUSE) THEN IN_USE
    ELSE FREE

HLive == {"recv", "reply", "close_test", "close_call", "close_store",
          "mark_read", "mark_write", "exiting"}
HGone == {"exited", "joined"}

Live(c) == hpc[c] \in HLive
LiveHandlers == {c \in Clients : Live(c)}
ProcAlive == exitcode = NoExit

\* close(fd) as the OS sees it: SOCKERR and the listening descriptor aside,
\* it hits the client descriptor fd.
Close(fd) ==
    IF fd \in Clients
    THEN [ncloses EXCEPT ![fd] = IF @ < 2 THEN @ + 1 ELSE @]
    ELSE ncloses
SockOpen(fd) == fd \in Clients /\ ncloses[fd] = 0

(***************************************************************************)
(* main, lines 173-185: state after server_start succeeded.                *)
(***************************************************************************)
InitSrv ==
    /\ running = TRUE
    /\ server_socket = LISTEN_FD
    /\ connections = [s \in Slots |->
                        [status |-> 0, sockfd |-> SOCKERR, thread |-> NULL]]
    /\ listenOpen = TRUE
    /\ ncloses = [c \in Clients |-> 0]
    /\ nextClient = 1
    /\ pc = "loop_test"
    /\ i = 0
    /\ accepted = SOCKERR
    /\ joining = NULL
    /\ retval = 0
    /\ exitcode = NoExit
    /\ spc = "none"
    /\ si = 0
    /\ sigcount = 0
    /\ hpc = [c \in Clients |-> "none"]
    /\ hslot = [c \in Clients |-> 0]
    /\ hfd = [c \in Clients |-> SOCKERR]
    /\ hreg = [c \in Clients |-> 0]


(***************************************************************************)
(* The supervisor: server_loop, lines 327-384.  It runs only while no      *)
(* signal handler frame is on top of it.                                   *)
(***************************************************************************)
SupRuns == ProcAlive /\ spc = "none"

Conn(s) == connections[s]
SetStatus(s, v) == [connections EXCEPT ![s].status = v]

SlotFinishedNever(s) == FALSE

\* Line 333: connections[i].status & CONN_FINISHED
SlotFinished(s) == HasFlag(Conn(s).status, CONN_FINISHED)

SlotInUseNever(s) == FALSE
SlotInUseFirst(s) == s = 0 /\ HasFlag(Conn(s).status, CONN_INUSE)

\* Line 351: conn->status & CONN_INUSE
SlotInUse(s) == HasFlag(Conn(s).status, CONN_INUSE)

\* pthread_join(t): returns once thread t has terminated ...
JoinableAlways(t) == TRUE
Joinable(t) == hpc[t] \in HGone
\* ... and releases what was left of it.
Joined(t) == [hpc EXCEPT ![t] = IF @ = "exited" THEN "joined" ELSE @]

\* Line 328: while (running)
LoopTest ==
    /\ SupRuns /\ pc = "loop_test"
    /\ UNCHANGED <<txnVars, itemVars>>
    /\ IF running
       THEN pc' = "reap_test" /\ i' = 0
       ELSE pc' = "main_finish" /\ i' = i
    /\ UNCHANGED <<running, server_socket, connections, listenOpen, ncloses,
                   nextClient, accepted, joining, retval, exitcode, spc, si,
                   sigcount, hpc, hslot, hfd, hreg>>

\* Lines 332-333: the reap loop's header and its test of the slot.
ReapTest ==
    /\ SupRuns /\ pc = "reap_test"
    /\ UNCHANGED <<txnVars, itemVars>>
    /\ IF i = MAX_CONNECTIONS
       THEN pc' = "scan_test" /\ i' = 0
       ELSE IF SlotFinished(i)
            THEN pc' = "reap_join" /\ i' = i
            ELSE pc' = "reap_test" /\ i' = i + 1
    /\ UNCHANGED <<running, server_socket, connections, listenOpen, ncloses,
                   nextClient, accepted, joining, retval, exitcode, spc, si,
                   sigcount, hpc, hslot, hfd, hreg>>

\* Line 334: if (connections[i].thread != NULL), entering pthread_join.
ReapJoin ==
    /\ SupRuns /\ pc = "reap_join"
    /\ UNCHANGED <<txnVars, itemVars>>
    /\ IF Conn(i).thread # NULL
       THEN pc' = "reap_joining" /\ joining' = Conn(i).thread
       ELSE pc' = "reap_clear" /\ joining' = joining
    /\ UNCHANGED <<running, server_socket, connections, listenOpen, ncloses,
                   nextClient, i, accepted, retval, exitcode, spc, si,
                   sigcount, hpc, hslot, hfd, hreg>>

\* Line 335: pthread_join returns.
ReapJoining ==
    /\ SupRuns /\ pc = "reap_joining"
    /\ UNCHANGED <<txnVars, itemVars>>
    /\ Joinable(joining)
    /\ hpc' = Joined(joining)
    /\ joining' = NULL
    /\ pc' = "reap_clear"
    /\ UNCHANGED <<running, server_socket, connections, listenOpen, ncloses,
                   nextClient, i, accepted, retval, exitcode, spc, si,
                   sigcount, hslot, hfd, hreg>>

\* Lines 336-338: thread = NULL; selector = NULL; status = 0.
ReapClear ==
    /\ SupRuns /\ pc = "reap_clear"
    /\ UNCHANGED <<txnVars, itemVars>>
    /\ connections' = [connections EXCEPT ![i].thread = NULL, ![i].status = 0]
    /\ i' = i + 1
    /\ pc' = "reap_test"
    /\ UNCHANGED <<running, server_socket, listenOpen, ncloses, nextClient,
                   accepted, joining, retval, exitcode, spc, si, sigcount,
                   hpc, hslot, hfd, hreg>>

\* Lines 343-352: the accept scan's header and "ignore slots in use".
ScanTest ==
    /\ SupRuns /\ pc = "scan_test"
    /\ UNCHANGED <<txnVars, itemVars>>
    /\ IF i = MAX_CONNECTIONS
       THEN pc' = "loop_test" /\ i' = i
       ELSE IF SlotInUse(i)
            THEN pc' = "scan_test" /\ i' = i + 1
            ELSE pc' = "accept" /\ i' = i
    /\ UNCHANGED <<running, server_socket, connections, listenOpen, ncloses,
                   nextClient, accepted, joining, retval, exitcode, spc, si,
                   sigcount, hpc, hslot, hfd, hreg>>

\* Line 356, the call: accept(sockfd, ...) on the descriptor server_loop
\* was given.  On a closed descriptor it fails; on the open one a client
\* connects, or it fails (SO_RCVTIMEO of line 267 expiring, or any error).
Accept ==
    /\ SupRuns /\ pc = "accept"
    /\ UNCHANGED <<txnVars, itemVars>>
    /\ \/ /\ listenOpen
          /\ nextClient <= MaxClients
          /\ accepted' = nextClient
          /\ nextClient' = nextClient + 1
       \/ /\ accepted' = SOCKERR
          /\ nextClient' = nextClient
    /\ pc' = "accept_store"
    /\ UNCHANGED <<running, server_socket, connections, listenOpen, ncloses,
                   i, joining, retval, exitcode, spc, si, sigcount,
                   hpc, hslot, hfd, hreg>>

\* Lines 356-357: conn->sockfd = <returned value>; if (== SOCKERR).
AcceptStore ==
    /\ SupRuns /\ pc = "accept_store"
    /\ UNCHANGED <<txnVars, itemVars>>
    /\ connections' = [connections EXCEPT ![i].sockfd = accepted]
    /\ pc' = IF accepted = SOCKERR THEN "accept_fail" ELSE "set_inuse"
    /\ UNCHANGED <<running, server_socket, listenOpen, ncloses, nextClient,
                   i, accepted, joining, retval, exitcode, spc, si, sigcount,
                   hpc, hslot, hfd, hreg>>

\* Lines 358-361: conn->status = 0; break.
AcceptFail ==
    /\ SupRuns /\ pc = "accept_fail"
    /\ UNCHANGED <<txnVars, itemVars>>
    /\ connections' = SetStatus(i, 0)
    /\ pc' = "loop_test"
    /\ UNCHANGED <<running, server_socket, listenOpen, ncloses, nextClient,
                   i, accepted, joining, retval, exitcode, spc, si, sigcount,
                   hpc, hslot, hfd, hreg>>

\* Line 363: conn->status = CONN_INUSE.
SetInUse ==
    /\ SupRuns /\ pc = "set_inuse"
    /\ UNCHANGED <<txnVars, itemVars>>
    /\ connections' = SetStatus(i, CONN_INUSE)
    /\ pc' = "create"
    /\ UNCHANGED <<running, server_socket, listenOpen, ncloses, nextClient,
                   i, accepted, joining, retval, exitcode, spc, si, sigcount,
                   hpc, hslot, hfd, hreg>>

\* Lines 373-381: pthread_create(&conn->thread, ..., conn) succeeds (the
\* thread starts at line 393 with conn = &connections[i]) and the scan
\* breaks, or it fails.
Create ==
    /\ SupRuns /\ pc = "create"
    /\ UNCHANGED <<txnVars, itemVars>>
    /\ \/ /\ connections' = [connections EXCEPT ![i].thread = accepted]
          /\ hpc' = [hpc EXCEPT ![accepted] = "recv"]
          /\ hslot' = [hslot EXCEPT ![accepted] = i]
          /\ pc' = "loop_test"
       \/ /\ pc' = "create_close"
          /\ UNCHANGED <<connections, hpc, hslot>>
    /\ UNCHANGED <<running, server_socket, listenOpen, ncloses, nextClient,
                   i, accepted, joining, retval, exitcode, spc, si, sigcount,
                   hfd, hreg>>

\* Line 376: close(conn->sockfd).
CreateClose ==
    /\ SupRuns /\ pc = "create_close"
    /\ UNCHANGED <<txnVars, itemVars>>
    /\ ncloses' = Close(Conn(i).sockfd)
    /\ pc' = "create_free"
    /\ UNCHANGED <<running, server_socket, connections, listenOpen,
                   nextClient, i, accepted, joining, retval, exitcode, spc,
                   si, sigcount, hpc, hslot, hfd, hreg>>

\* Lines 377-378: conn->status = 0; break.
CreateFree ==
    /\ SupRuns /\ pc = "create_free"
    /\ UNCHANGED <<txnVars, itemVars>>
    /\ connections' = SetStatus(i, 0)
    /\ pc' = "loop_test"
    /\ UNCHANGED <<running, server_socket, listenOpen, ncloses, nextClient,
                   i, accepted, joining, retval, exitcode, spc, si, sigcount,
                   hpc, hslot, hfd, hreg>>

\* main, lines 194-197: if (running) server_stop().
MainFinish ==
    /\ SupRuns /\ pc = "main_finish"
    /\ UNCHANGED <<txnVars, itemVars>>
    /\ spc' = IF running THEN "stop_begin" ELSE "none"
    /\ pc' = "main_return"
    /\ UNCHANGED <<running, server_socket, connections, listenOpen, ncloses,
                   nextClient, i, accepted, joining, retval, exitcode, si,
                   sigcount, hpc, hslot, hfd, hreg>>

\* main, lines 198-199: return retval.  The process exits and takes every
\* thread that still runs with it.
MainReturn ==
    /\ SupRuns /\ pc = "main_return"
    /\ UNCHANGED <<txnVars, itemVars>>
    /\ exitcode' = retval
    /\ hpc' = [c \in Clients |-> IF Live(c) THEN "killed" ELSE hpc[c]]
    /\ pc' = "exit"
    /\ UNCHANGED <<running, server_socket, connections, listenOpen, ncloses,
                   nextClient, i, accepted, joining, retval, spc, si,
                   sigcount, hslot, hfd, hreg>>

Supervisor ==
    \/ LoopTest \/ ReapTest \/ ReapJoin \/ ReapJoining \/ ReapClear
    \/ ScanTest \/ Accept \/ AcceptStore \/ AcceptFail \/ SetInUse
    \/ Create \/ CreateClose \/ CreateFree \/ MainFinish \/ MainReturn

Init == InitSrv /\ TxnIdle

(***************************************************************************)
(* signal_handler (lines 140-143) and server_stop (lines 296-319).  The    *)
(* frame runs on the supervisor thread; SIGINT stays blocked while its     *)
(* handler runs, so a further SIGINT is taken after the frame returned.    *)
(***************************************************************************)
SigInt ==
    /\ ProcAlive /\ spc = "none"
    /\ UNCHANGED <<txnVars, itemVars>>
    /\ sigcount < MaxSigints
    /\ sigcount' = sigcount + 1
    /\ spc' = "stop_begin"
    /\ UNCHANGED <<running, server_socket, connections, listenOpen, ncloses,
                   nextClient, pc, i, accepted, joining, retval, exitcode,
                   si, hpc, hslot, hfd, hreg>>

\* Line 308: (connections[i].status & CONN_INUSE) == 0 -> continue
StopSkips(s) == ~HasFlag(Conn(s).status, CONN_INUSE)

StopBeginKeepsRunning ==
    /\ ProcAlive /\ spc = "stop_begin"
    /\ UNCHANGED <<txnVars, itemVars>>
    /\ listenOpen' = IF server_socket # SOCKERR THEN FALSE ELSE listenOpen
    /\ server_socket' = SOCKERR
    /\ si' = 0
    /\ spc' = "stop_test"
    /\ UNCHANGED <<running, connections, ncloses, nextClient, pc, i,
                   accepted, joining, retval, exitcode, sigcount, hpc, hslot,
                   hfd, hreg>>

\* Lines 300-304: running = 0; close the listening socket; server_socket =
\* SOCKERR.
StopBegin ==
    /\ ProcAlive /\ spc = "stop_begin"
    /\ UNCHANGED <<txnVars, itemVars>>
    /\ running' = FALSE
    /\ listenOpen' = IF server_socket # SOCKERR THEN FALSE ELSE listenOpen
    /\ server_socket' = SOCKERR
    /\ si' = 0
    /\ spc' = "stop_test"
    /\ UNCHANGED <<connections, ncloses, nextClient, pc, i, accepted,
                   joining, retval, exitcode, sigcount, hpc, hslot, hfd,
                   hreg>>

\* Lines 307-311: the loop header, the skip of slots not in use, and
\* connections[i].status = 0.  At the end of the loop server_stop returns.
StopTest ==
    /\ ProcAlive /\ spc = "stop_test"
    /\ UNCHANGED <<txnVars, itemVars>>
    /\ IF si = MAX_CONNECTIONS
       THEN spc' = "none" /\ si' = 0 /\ connections' = connections
       ELSE IF StopSkips(si)
            THEN spc' = "stop_test" /\ si' = si + 1
                 /\ connections' = connections
            ELSE spc' = "stop_close" /\ si' = si
                 /\ connections' = SetStatus(si, 0)
    /\ UNCHANGED <<running, server_socket, listenOpen, ncloses, nextClient,
                   pc, i, accepted, joining, retval, exitcode, sigcount,
                   hpc, hslot, hfd, hreg>>

\* Lines 312-313: if (sockfd != SOCKERR) close(sockfd).
StopClose ==
    /\ ProcAlive /\ spc = "stop_close"
    /\ UNCHANGED <<txnVars, itemVars>>
    /\ ncloses' = Close(Conn(si).sockfd)
    /\ spc' = "stop_store"
    /\ UNCHANGED <<running, server_socket, connections, listenOpen,
                   nextClient, pc, i, accepted, joining, retval, exitcode,
                   si, sigcount, hpc, hslot, hfd, hreg>>

\* Lines 314-315: sockfd = SOCKERR; if (thread != NULL) enter pthread_join.
\* With no thread, line 317 and the next iteration.
StopStore ==
    /\ ProcAlive /\ spc = "stop_store"
    /\ UNCHANGED <<txnVars, itemVars>>
    /\ connections' = [connections EXCEPT ![si].sockfd = SOCKERR]
    /\ IF Conn(si).thread # NULL
       THEN spc' = "stop_joining" /\ si' = si
       ELSE spc' = "stop_test" /\ si' = si + 1
    /\ UNCHANGED <<running, server_socket, listenOpen, ncloses, nextClient,
                   pc, i, accepted, joining, retval, exitcode, sigcount,
                   hpc, hslot, hfd, hreg>>

\* Lines 316-317: pthread_join returns; thread = NULL.
StopJoining ==
    /\ ProcAlive /\ spc = "stop_joining"
    /\ UNCHANGED <<txnVars, itemVars>>
    /\ Joinable(Conn(si).thread)
    /\ hpc' = Joined(Conn(si).thread)
    /\ connections' = [connections EXCEPT ![si].thread = NULL]
    /\ si' = si + 1
    /\ spc' = "stop_test"
    /\ UNCHANGED <<running, server_socket, listenOpen, ncloses, nextClient,
                   pc, i, accepted, joining, retval, exitcode, sigcount,
                   hslot, hfd, hreg>>

ServerStop == StopBegin \/ StopTest \/ StopClose \/ StopStore \/ StopJoining

(***************************************************************************)
(* A handler thread: server_process_request, lines 393-486, with the       *)
(* transaction reduced to what the rest of the server can observe.  The    *)
(* transaction itself is SpecTxn's.                                        *)
(***************************************************************************)
HConn(c) == connections[hslot[c]]

\* Line 406: recv(conn->sockfd, ...) returns a request, or fails (timeout,
\* error, or a descriptor server_stop has closed).
HRecv(c) ==
    /\ ProcAlive /\ hpc[c] = "recv"
    /\ UNCHANGED <<txnVars, itemVars>>
    /\ \/ /\ SockOpen(HConn(c).sockfd)
          /\ hpc' = [hpc EXCEPT ![c] = "reply"]
       \/ /\ hpc' = [hpc EXCEPT ![c] = "close_test"]
    /\ UNCHANGED <<running, server_socket, connections, listenOpen, ncloses,
                   nextClient, pc, i, accepted, joining, retval, exitcode,
                   spc, si, sigcount, hslot, hfd, hreg>>

\* Lines 411-470: the reply, whatever it is and however it ends.
HReply(c) ==
    /\ ProcAlive /\ hpc[c] = "reply"
    /\ UNCHANGED <<txnVars, itemVars>>
    /\ hpc' = [hpc EXCEPT ![c] = "close_test"]
    /\ UNCHANGED <<running, server_socket, connections, listenOpen, ncloses,
                   nextClient, pc, i, accepted, joining, retval, exitcode,
                   spc, si, sigcount, hslot, hfd, hreg>>

\* Line 479: if (conn->sockfd != SOCKERR)
HCloseTest(c) ==
    /\ ProcAlive /\ hpc[c] = "close_test"
    /\ UNCHANGED <<txnVars, itemVars>>
    /\ IF HConn(c).sockfd # SOCKERR
       THEN /\ hpc' = [hpc EXCEPT ![c] = "close_call"]
            /\ hfd' = [hfd EXCEPT ![c] = HConn(c).sockfd]
       ELSE /\ hpc' = [hpc EXCEPT ![c] = "close_store"]
            /\ hfd' = hfd
    /\ UNCHANGED <<running, server_socket, connections, listenOpen, ncloses,
                   nextClient, pc, i, accepted, joining, retval, exitcode,
                   spc, si, sigcount, hslot, hreg>>

\* Line 480: close(conn->sockfd).  The field is shared with server_stop
\* and read without synchronisation: the value closed is the one the test
\* saw or the one the field holds now.
HCloseCall(c) ==
    /\ ProcAlive /\ hpc[c] = "close_call"
    /\ UNCHANGED <<txnVars, itemVars>>
    /\ \E fd \in {hfd[c], HConn(c).sockfd} : ncloses' = Close(fd)
    /\ hfd' = [hfd EXCEPT ![c] = SOCKERR]
    /\ hpc' = [hpc EXCEPT ![c] = "close_store"]
    /\ UNCHANGED <<running, server_socket, connections, listenOpen,
                   nextClient, pc, i, accepted, joining, retval, exitcode,
                   spc, si, sigcount, hslot, hreg>>

\* Line 481: conn->sockfd = SOCKERR.
HCloseStore(c) ==
    /\ ProcAlive /\ hpc[c] = "close_store"
    /\ UNCHANGED <<txnVars, itemVars>>
    /\ connections' = [connections EXCEPT ![hslot[c]].sockfd = SOCKERR]
    /\ hpc' = [hpc EXCEPT ![c] = "mark_read"]
    /\ UNCHANGED <<running, server_socket, listenOpen, ncloses, nextClient,
                   pc, i, accepted, joining, retval, exitcode, spc, si,
                   sigcount, hslot, hfd, hreg>>

\* Line 482, conn->status |= CONN_FINISHED: the read ...
HMarkRead(c) ==
    /\ ProcAlive /\ hpc[c] = "mark_read"
    /\ UNCHANGED <<txnVars, itemVars>>
    /\ hreg' = [hreg EXCEPT ![c] = HConn(c).status]
    /\ hpc' = [hpc EXCEPT ![c] = "mark_write"]
    /\ UNCHANGED <<running, server_socket, connections, listenOpen, ncloses,
                   nextClient, pc, i, accepted, joining, retval, exitcode,
                   spc, si, sigcount, hslot, hfd>>

\* ... and the write.
HMarkWrite(c) ==
    /\ ProcAlive /\ hpc[c] = "mark_write"
    /\ UNCHANGED <<txnVars, itemVars>>
    /\ connections' = SetStatus(hslot[c], SetFlag(hreg[c], CONN_FINISHED))
    /\ hreg' = [hreg EXCEPT ![c] = 0]
    /\ hpc' = [hpc EXCEPT ![c] = "exiting"]
    /\ UNCHANGED <<running, server_socket, listenOpen, ncloses, nextClient,
                   pc, i, accepted, joining, retval, exitcode, spc, si,
                   sigcount, hslot, hfd>>

\* Line 484: pthread_exit(NULL).
HExit(c) ==
    /\ ProcAlive /\ hpc[c] = "exiting"
    /\ UNCHANGED <<txnVars, itemVars>>
    /\ hpc' = [hpc EXCEPT ![c] = "exited"]
    /\ UNCHANGED <<running, server_socket, connections, listenOpen, ncloses,
                   nextClient, pc, i, accepted, joining, retval, exitcode,
                   spc, si, sigcount, hslot, hfd, hreg>>

Handler(c) ==
    \/ HRecv(c) \/ HReply(c) \/ HCloseTest(c) \/ HCloseCall(c)
    \/ HCloseStore(c) \/ HMarkRead(c) \/ HMarkWrite(c) \/ HExit(c)

Next ==
    \/ Supervisor
    \/ SigInt
    \/ ServerStop
    \/ \E c \in Clients : Handler(c)

Spec == Init /\ [][Next]_vars

\* Every thread that can run does run: the supervisor (with the handler
\* frame on top of it) and each handler thread.  accept() and recv() carry
\* the timeout of line 267, so neither blocks for ever.
LiveSpec ==
    /\ Spec
    /\ WF_vars(Supervisor)
    /\ WF_vars(ServerStop)
    /\ \A c \in Clients : WF_vars(Handler(c))


(***************************************************************************)
(* Bytes and C strings.  A buffer is a sequence of bytes, a byte a string  *)
(* of one character; a C string is the part of a buffer before its first   *)
(* NUL.                                                                    *)
(***************************************************************************)
TAB == "\t"
CR == "\r"
LF == "\n"
NUL == "NUL"
\* Line 47 (POSIX build).
PATH_SEPARATOR == "/"
\* Line 36.
DEFAULT_HOSTNAME == <<"l", "o", "c", "a", "l", "h", "o", "s", "t">>
\* Lines 32 and 37.
DEFAULT_PORT == 70
\* Line 41.
INVALID_HOST == <<"n", "u", "l", "l", ".", "h", "o", "s", "t">>
\* Line 42.
INVALID_PORT == 0
\* Line 406: recv(conn->sockfd, selector, 255, 0).
RECV_MAX == 255
\* Lines 717 and 733: char buf[256]; snprintf(buf, 256, ...).
LINE_BUF == 256
\* Lines 562 and 601: char name[71]; snprintf(name, 71, ...).
NAME_BUF == 71
\* Line 537: fread(buf, sizeof(char), 256, fh).
FILE_CHUNK == 256
\* Line 935: (uint16_t)atoi(buf).
UINT16_MOD == 65536

Min2(a, b) == IF a <= b THEN a ELSE b
Take(s, n) == SubSeq(s, 1, Min2(n, Len(s)))
Drop(s, n) == SubSeq(s, n + 1, Len(s))
Rep(b, n) == [k \in 1 .. n |-> b]

\* First index >= k of s whose byte is in stops; Len(s) + 1 if there is
\* none (the index of the terminating NUL).
IndexFrom(s, k, stops) ==
    LET hits == {j \in k .. Len(s) : s[j] \in stops} IN
    IF hits = {} THEN Len(s) + 1
    ELSE CHOOSE j \in hits : \A h \in hits : j <= h

\* strlen and the %s of printf: the bytes before the first NUL.
CStr(buf) == SubSeq(buf, 1, IndexFrom(buf, 1, {NUL}) - 1)

Digit(d) == CASE d = 0 -> "0" [] d = 1 -> "1" [] d = 2 -> "2" [] d = 3 -> "3"
              [] d = 4 -> "4" [] d = 5 -> "5" [] d = 6 -> "6" [] d = 7 -> "7"
              [] d = 8 -> "8" [] d = 9 -> "9"
RECURSIVE Decimal(_)
\* The %u of printf.
Decimal(n) ==
    IF n < 10 THEN <<Digit(n)>>
    ELSE Append(Decimal(n \div 10), Digit(n % 10))

(***************************************************************************)
(* File system utilities, lines 1041-1128.                                 *)
(***************************************************************************)
SanitizeScanNever(path, k) == 0

\* Lines 1047-1064: the index, from k on, of the first '.' that is followed
\* by a '.'; 0 when the scan reaches the terminating NUL.
SanitizeScan(path, k) ==
    LET hits == {j \in k .. Len(path) - 1 :
                    path[j] = "." /\ path[j + 1] = "."} IN
    IF hits = {} THEN 0
    ELSE CHOOSE j \in hits : \A h \in hits : j <= h

path_sanitize_late(path) ==
    LET k == SanitizeScan(path, 1) IN
    [path |-> IF k = 0 THEN path ELSE SubSeq(path, 1, k),
     ret |-> k # 0]

\* path_sanitize: the path it leaves and the value it returns.
path_sanitize(path) ==
    LET k == SanitizeScan(path, 1) IN
    [path |-> IF k = 0 THEN path ELSE SubSeq(path, 1, k - 1),
     ret |-> k # 0]

\* Lines 1097-1120: one fragment appended to the buffer built so far;
\* acc.len is the function's len (the string's length plus one).
ConcatStep(acc, frag) ==
    LET plen == acc.len
        sep == plen > 1 /\ acc.buf[plen - 1] # PATH_SEPARATOR
    IN  [buf |-> (IF sep THEN Append(acc.buf, PATH_SEPARATOR) ELSE acc.buf)
                 \o frag,
         len |-> plen + Len(frag) + (IF sep THEN 1 ELSE 0)]

RECURSIVE ConcatFrom(_, _)
ConcatFrom(acc, frags) ==
    IF frags = <<>> THEN acc
    ELSE ConcatFrom(ConcatStep(acc, Head(frags)), Tail(frags))

\* path_concat when no allocation fails: the buffer and the returned size.
path_concat(frags) == ConcatFrom([buf |-> <<>>, len |-> 1], frags)


(***************************************************************************)
(* The file system the server runs on.  A node is named by the sequence   *)
(* of names from the root; a directory lists its entries in the order      *)
(* readdir returns them, "." and ".." included.                            *)
(***************************************************************************)
Dot == <<".">>
DotDot == <<".", ".">>
GOPHERMAP == <<"g", "o", "p", "h", "e", "r", "m", "a", "p">>

File(data) == [kind |-> "file", data |-> data, entries |-> <<>>]
Dir(entries) == [kind |-> "dir", data |-> <<>>, entries |-> entries]
At(path, node) == [path |-> path, node |-> node]

\* main, line 162: docroot = argv[1].
docroot == <<"/", "r">>

\* Names whose menu record is exactly LINE_BUF - 1 bytes, and one byte more,
\* when listed under the selector "d".
LongName == Rep("a", LINE_BUF - 90)
LongerName == Rep("a", LINE_BUF - 89)

Worlds == {"plain", "odd", "long"}

\* What every world has: /s outside the document root, /r/a, /r/d, /r/m.
CommonNodes ==
    {At(<<>>, Dir(<<Dot, DotDot, <<"r">>, <<"s">>>>)),
     At(<<<<"s">>>>, File(<<"x">>)),
     At(<<<<"r">>>>, Dir(<<Dot, DotDot, <<"a">>, <<"d">>, <<"m">>>>)),
     At(<<<<"r">>, <<"m">>>>, Dir(<<Dot, GOPHERMAP, DotDot, <<"a">>, <<".", "h">>>>)),
     At(<<<<"r">>, <<"m">>, <<"a">>>>, File(<<"B">>)),
     At(<<<<"r">>, <<"m">>, <<".", "h">>>>, File(<<"H">>))}

WorldNodes(w) ==
    CASE w = "plain" ->
        {At(<<<<"r">>, <<"a">>>>, File(<<"h", "i", "\n">>)),
         At(<<<<"r">>, <<"d">>>>, Dir(<<<<"a">>, Dot, <<".", "h">>, DotDot>>)),
         At(<<<<"r">>, <<"d">>, <<"a">>>>, File(<<"A">>)),
         At(<<<<"r">>, <<"d">>, <<".", "h">>>>, File(<<"H">>)),
         At(<<<<"r">>, <<"m">>, GOPHERMAP>>,
            File(<<"i", "W", "e", "l", "c", "o", "m", "e", "\t", "f", "a", "k", "e", "\t", "(", "N", "U", "L", "L", ")", "\t", "0", "\n">> \o <<"*", "\n">> \o <<".", "\n">>
                 \o <<"i", "U", "n", "r", "e", "a", "c", "h", "a", "b", "l", "e", "\t", "f", "a", "k", "e", "\t", "(", "N", "U", "L", "L", ")", "\t", "0", "\n">>))}
      [] w = "odd" ->
        {At(<<<<"r">>, <<"a">>>>, File(<<".">>)),
         At(<<<<"r">>, <<"d">>>>,
            Dir(<<Dot, DotDot, <<"t", "\t", "b">>, <<"d">>, <<"g", "d">>>>)),
         At(<<<<"r">>, <<"d">>, <<"t", "\t", "b">>>>, File(<<"T">>)),
         At(<<<<"r">>, <<"d">>, <<"d">>>>, Dir(<<Dot, DotDot>>)),
         At(<<<<"r">>, <<"d">>, <<"g", "d">>>>, File(<<"G">>)),
         At(<<<<"r">>, <<"m">>, GOPHERMAP>>,
            File(<<"0", "I", "n", "t", "r", "o", "\t", "a", "\t", "l", "o", "c", "a", "l", "h", "o", "s", "t", "\t", "7", "0", "\r", "\n">> \o <<"h", "e", "l", "l", "o", "\r", "\n">>
                 \o <<"\r", "\n">> \o <<"1", "S", "u", "b", "\t", "/", "d", "\n">> \o <<"0", "F", "a", "r", "\t", "x", "\t", "h", "\t", "7", "0", "0", "0">>))}
      [] w = "long" ->
        {At(<<<<"r">>, <<"a">>>>, File(Rep("z", FILE_CHUNK + 2))),
         At(<<<<"r">>, <<"d">>>>, Dir(<<Dot, DotDot, LongName, LongerName>>)),
         At(<<<<"r">>, <<"d">>, LongName>>, File(<<"L">>)),
         At(<<<<"r">>, <<"d">>, LongerName>>, File(<<"M">>)),
         At(<<<<"r">>, <<"m">>, GOPHERMAP>>,
            File(Rep("b", LINE_BUF - 6) \o <<"\n">> \o <<"o", "k", "\n">>))}

RECURSIVE ConcatLines(_)
\* The bytes of a text file with these lines.
ConcatLines(lines) ==
    IF lines = <<>> THEN <<>>
    ELSE Head(lines) \o <<"\n">> \o ConcatLines(Tail(lines))

Nodes(w) == CommonNodes \cup WorldNodes(w)
FileSystem(w) ==
    [p \in {n.path : n \in Nodes(w)} |->
        (CHOOSE n \in Nodes(w) : n.path = p).node]

\* No such file or directory.
NoEnt == << <<NUL>> >>

RECURSIVE Components(_)
\* The components of a path, split at the separators; a trailing
\* separator stands for a final ".".
Components(path) ==
    IF path = <<>> THEN <<>>
    ELSE LET j == IndexFrom(path, 1, {PATH_SEPARATOR}) IN
         <<SubSeq(path, 1, j - 1)>>
         \o (IF j > Len(path) THEN <<>>
             ELSE IF j = Len(path) THEN <<Dot>>
             ELSE Components(Drop(path, j)))

Parent(node) == IF node = <<>> THEN <<>> ELSE SubSeq(node, 1, Len(node) - 1)

RECURSIVE Walk(_, _, _)
\* Path resolution as stat() does it, from node cur.
Walk(fs, comps, cur) ==
    IF comps = <<>> THEN cur
    ELSE IF fs[cur].kind # "dir" THEN NoEnt
    ELSE LET c == Head(comps) IN
         IF c = <<>> \/ c = Dot THEN Walk(fs, Tail(comps), cur)
         ELSE IF c = DotDot THEN Walk(fs, Tail(comps), Parent(cur))
         ELSE IF Append(cur, c) \in DOMAIN fs
              THEN Walk(fs, Tail(comps), Append(cur, c))
              ELSE NoEnt

\* The node an absolute path names, NoEnt if it names none.
Resolve(fs, path) ==
    IF path = <<>> \/ path[1] # PATH_SEPARATOR THEN NoEnt
    ELSE Walk(fs, Components(path), <<>>)

\* dir_exists, lines 1019-1030: stat() succeeds and S_ISDIR.
dir_exists(fs, path) ==
    LET n == Resolve(fs, path) IN n # NoEnt /\ fs[n].kind = "dir"

\* file_exists, lines 985-988: access(fname, F_OK) != -1.
file_exists(fs, path) == Resolve(fs, path) # NoEnt

RECURSIVE LexWalk(_, _)
\* A path made canonical by its text alone: empty and "." components
\* dropped, ".." taking the parent.
LexWalk(comps, cur) ==
    IF comps = <<>> THEN cur
    ELSE LET c == Head(comps) IN
         IF c = <<>> \/ c = Dot THEN LexWalk(Tail(comps), cur)
         ELSE IF c = DotDot THEN LexWalk(Tail(comps), Parent(cur))
         ELSE LexWalk(Tail(comps), Append(cur, c))
Canonical(path) == LexWalk(Components(path), <<>>)

\* Node p is node d or lies below it.
Within(d, p) == Len(p) >= Len(d) /\ SubSeq(p, 1, Len(d)) = d


(***************************************************************************)
(* Gopher items, lines 830-938.                                            *)
(***************************************************************************)
\* Line 40.
INVALID_TYPE == NUL

\* gopher_item_new, lines 839-844.
gopher_item_new ==
    [type |-> INVALID_TYPE, name |-> NullPtr, selector |-> NullPtr,
     hostname |-> INVALID_HOST, port |-> INVALID_PORT]

Digits == {"0", "1", "2", "3", "4", "5", "6", "7", "8", "9"}
DigitVal(b) == CHOOSE d \in 0 .. 9 : Digit(d) = b
IsSpace(b) == b \in {" ", TAB, LF, CR}

RECURSIVE SkipSpace(_, _)
SkipSpace(s, k) ==
    IF k <= Len(s) /\ IsSpace(s[k]) THEN SkipSpace(s, k + 1) ELSE k

RECURSIVE AtoiDigits(_, _, _)
AtoiDigits(s, k, acc) ==
    IF k > Len(s) \/ s[k] \notin Digits THEN acc
    ELSE AtoiDigits(s, k + 1, acc * 10 + DigitVal(s[k]))

atoiZero(s) == 0

\* atoi: leading white space, an optional sign, then the digits.
atoi(s) ==
    LET k == SkipSpace(s, 1)
        signed == k <= Len(s) /\ s[k] \in {"-", "+"}
        v == AtoiDigits(s, IF signed THEN k + 1 ELSE k, 0)
    IN  IF signed /\ s[k] = "-" THEN 0 - v ELSE v

\* gopher_item_parse, lines 886-937, of a NUL-terminated line.  The name
\* loop of line 896 stops at a TAB only; overrun says that it read past the
\* line's terminating NUL.
gopher_item_parse(line) ==
    LET end == Len(line) + 1
        e1 == IndexFrom(line, 2, {TAB})
        e2 == IndexFrom(line, e1 + 1, {TAB})
        e3 == IndexFrom(line, e2 + 1, {TAB})
        base == [type |-> line[1],
                 name |-> SubSeq(line, 2, e1 - 1),
                 selector |-> SubSeq(line, e1 + 1, e2 - 1),
                 hostname |-> DEFAULT_HOSTNAME,
                 port |-> DEFAULT_PORT,
                 overrun |-> e1 = end]
    IN  IF e2 >= end THEN base
        ELSE IF e3 >= end
             THEN [base EXCEPT !.hostname = SubSeq(line, e2 + 1, e3 - 1)]
             ELSE [base EXCEPT !.hostname = SubSeq(line, e2 + 1, e3 - 1),
                               !.port = atoi(SubSeq(line, e3 + 1, Len(line)))
                                        % UINT16_MOD]

(***************************************************************************)
(* Client replies, lines 521-812.  A reply operator takes the sends made   *)
(* so far and gives them back extended, with the value the C function      *)
(* returns.  out lists every send() call of the transaction: what was      *)
(* sent, its bytes, and whether send() succeeded.  fails is the set of     *)
(* send() calls, by their number in the transaction, that fail.            *)
(***************************************************************************)
Result(out, ret) == [out |-> out, ret |-> ret]

\* send(conn->sockfd, data, n, 0)
Send(fails, out, what, data) ==
    LET ok == (Len(out) + 1) \notin fails IN
    Result(Append(out, [what |-> what, data |-> data, ok |-> ok]), ok)

ItemSelectorAlways(csel, item) ==
    IF item.selector # NullPtr
    THEN path_concat(<<csel, item.selector>>).buf
    ELSE <<>>

\* Lines 721-730: the selector put in the record.
ItemSelector(csel, item) ==
    IF /\ csel # <<>>
       /\ item.selector # NullPtr
       /\ (item.selector = <<>> \/ item.selector[1] # PATH_SEPARATOR)
    THEN path_concat(<<csel, item.selector>>).buf
    ELSE IF item.selector # NullPtr THEN item.selector ELSE <<>>

\* Lines 733-737: what "%c%s\t%s\t%s\t%u\r\n" formats, whatever its length.
ItemLine(csel, item) ==
    <<item.type>>
    \o (IF item.name = NullPtr THEN <<>> ELSE item.name) \o <<TAB>>
    \o ItemSelector(csel, item) \o <<TAB>>
    \o (IF item.hostname = NullPtr THEN DEFAULT_HOSTNAME ELSE item.hostname)
    \o <<TAB>> \o Decimal(item.port) \o <<CR, LF>>

\* Line 745: if (len >= 256) return 0.
LineTooLong(line) == Len(line) >= LINE_BUF

\* client_send_item, lines 716-758, under the client selector csel.
client_send_item(fails, out, csel, item) ==
    LET line == ItemLine(csel, item) IN
    IF LineTooLong(line) THEN Result(out, FALSE)
    ELSE Send(fails, out, "item", line)

\* client_send_item_simple, lines 769-788.
client_send_item_simple(fails, out, csel, type, msg) ==
    client_send_item(fails, out, csel,
        [gopher_item_new EXCEPT !.type = type, !.name = msg,
                                !.hostname = INVALID_HOST,
                                !.port = INVALID_PORT])

\* client_send_info, line 799.
client_send_info(fails, out, csel, msg) ==
    client_send_item_simple(fails, out, csel, "i", msg)

\* client_send_error, line 811.
client_send_error(fails, out, csel, msg) ==
    client_send_item_simple(fails, out, csel, "3", msg)

RECURSIVE FileLoop(_, _, _)
\* Lines 537-543: the file piped in chunks until a send fails.
FileLoop(fails, out, data) ==
    IF data = <<>> THEN Result(out, TRUE)
    ELSE LET r == Send(fails, out, "file", Take(data, FILE_CHUNK)) IN
         IF r.ret THEN FileLoop(fails, r.out, Drop(data, FILE_CHUNK))
         ELSE r

\* client_send_file, lines 521-548; fopen fails on a path that names
\* nothing.
client_send_file(fails, out, fs, path) ==
    LET n == Resolve(fs, path) IN
    IF n = NoEnt THEN Result(out, FALSE)
    ELSE FileLoop(fails, out, fs[n].data)

\* Lines 590-597: entries the listing skips.
SkipsEntry(name) == name[1] = "." \/ (name[1] = "g" /\ name = GOPHERMAP)

\* Lines 600-604: the item of one directory entry.
EntryItem(isdir, name) ==
    [type |-> IF isdir THEN "1" ELSE "0",
     name |-> Take(Append(name, IF isdir THEN "/" ELSE " "), NAME_BUF - 1),
     selector |-> name,
     hostname |-> DEFAULT_HOSTNAME,
     port |-> DEFAULT_PORT]

RECURSIVE DirLoop(_, _, _, _, _, _)
\* Lines 588-613: the readdir loop over the entries left.
DirLoop(fails, acc, fs, csel, node, entries) ==
    IF entries = <<>> THEN acc
    ELSE LET name == Head(entries) IN
         IF SkipsEntry(name)
         THEN DirLoop(fails, acc, fs, csel, node, Tail(entries))
         ELSE LET isdir == fs[Append(node, name)].kind = "dir"
                  r == client_send_item(fails, acc.out, csel,
                                        EntryItem(isdir, name))
              IN  DirLoop(fails, Result(r.out, acc.ret /\ r.ret), fs, csel,
                          node, Tail(entries))

DirHeaderOnce(fails, out, csel) ==
    client_send_info(fails, out, csel,
                     Take(<<"[">> \o csel \o <<"]", ":">>, LINE_BUF - 1))

\* Lines 575-580: the header; ret is what the second client_send_info
\* returned.
DirHeader(fails, out, csel) ==
    LET msg == Take(<<"[">> \o csel \o <<"]", ":">>, LINE_BUF - 1)
        r1 == client_send_info(fails, out, csel, msg)
    IN  client_send_info(fails, r1.out, csel, <<>>)

\* client_send_dir, lines 559-623.
client_send_dir(fails, out, fs, csel, path, header) ==
    LET node == Resolve(fs, path) IN
    IF node = NoEnt \/ fs[node].kind # "dir" THEN Result(out, FALSE)
    ELSE LET h == IF header THEN DirHeader(fails, out, csel)
                  ELSE Result(out, TRUE)
         IN  DirLoop(fails, h, fs, csel, node, fs[node].entries)

\* fgets(buf, 256, fh): up to 255 bytes, through the first line feed.
Fgets(data) == Take(data, Min2(IndexFrom(data, 1, {LF}), LINE_BUF - 1))

\* Lines 657-664: the line cut at its first CR, LF or NUL.
StripLine(chunk) == SubSeq(chunk, 1, IndexFrom(chunk, 1, {CR, LF, NUL}) - 1)
CountTabs(line) == Cardinality({k \in 1 .. Len(line) : line[k] = TAB})

\* Lines 674-675: the gophermap's path without its last 10 bytes.
MapDir(path) == SubSeq(path, 1, Len(path) - 10)

HaltLineNever(line) == FALSE

\* Line 669: strcmp(buf, ".") == 0.
HaltLine(line) == line = Dot

StarListingWithHeader(fails, out, fs, csel, path) ==
    client_send_dir(fails, out, fs, csel, MapDir(path), TRUE)

\* Lines 672-679: the listing of the gophermap's directory, no header.
StarListing(fails, out, fs, csel, path) ==
    client_send_dir(fails, out, fs, csel, MapDir(path), FALSE)

RECURSIVE MapLoop(_, _, _, _, _, _)
\* Lines 650-701: the fgets loop over the bytes of the file left to read.
MapLoop(fails, acc, fs, csel, path, data) ==
    IF data = <<>> THEN acc
    ELSE LET chunk == Fgets(data)
             rest == Drop(data, Len(chunk))
             line == StripLine(chunk)
         IN  IF CountTabs(line) = 0
             THEN IF HaltLine(line) THEN acc
                  ELSE IF line = <<"*">>
                  THEN MapLoop(fails,
                               StarListing(fails, acc.out, fs, csel, path),
                               fs, csel, path, rest)
                  ELSE MapLoop(fails,
                               Result(client_send_info(fails, acc.out, csel,
                                                       line).out, acc.ret),
                               fs, csel, path, rest)
             ELSE LET r == client_send_item(fails, acc.out, csel,
                                            gopher_item_parse(line))
                  IN  MapLoop(fails, Result(r.out, acc.ret /\ r.ret), fs,
                              csel, path, rest)

\* client_send_gophermap, lines 633-706; a directory opens and reads
\* nothing.
client_send_gophermap(fails, out, fs, csel, path) ==
    LET n == Resolve(fs, path) IN
    IF n = NoEnt THEN Result(out, FALSE)
    ELSE MapLoop(fails, Result(out, TRUE), fs, csel, path, fs[n].data)


(***************************************************************************)
(* One transaction, byte by byte: server_process_request, lines 393-486,   *)
(* of a handler whose request is req and whose document root is the file   *)
(* system of world.                                                        *)
(***************************************************************************)
MaxReqLen == 3
MaxFail == 2

\* The bytes a short request is made of.
Alphabet == {"a", "d", "m", ".", "/", TAB, CR, LF, NUL}
ShortRequests == UNION {[1 .. n -> Alphabet] : n \in 0 .. MaxReqLen}
\* Selectors around the size of the receive buffer, each with its CRLF.
LongSelectors == {RECV_MAX - 3, RECV_MAX - 2, RECV_MAX - 1, RECV_MAX + 45}
LongRequests == {Rep("a", n) \o <<CR, LF>> : n \in LongSelectors}
Requests == ShortRequests \cup LongRequests
FailSets == SUBSET (1 .. MaxFail)

\* Line 415.
TooLongMsg == <<"S", "e", "l", "e", "c", "t", "o", "r", " ", "s", "t", "r", "i", "n", "g", " ", "l", "o", "n", "g", "e", "r", " ", "t", "h", "a", "n", " ", "2", "5", "5", " ", "c", "h", "a", "r", "a", "c", "t", "e", "r", "s">>
\* Line 467.
NotFoundMsg == <<"S", "e", "l", "e", "c", "t", "o", "r", " ", "n", "o", "t", " ", "f", "o", "u", "n", "d", ".">>

\* The file system of the world "plain" with the lines of cur_map, a line
\* feed after each, as docroot/m/gophermap.
LinesFileSystem(lines) ==
    [FileSystem("plain") EXCEPT
        ![<<<<"r">>, <<"m">>, GOPHERMAP>>] =
            File(ConcatLines(lines))]

\* The file system under the document root.
FS == IF world = "lines" THEN LinesFileSystem(cur_map) ELSE FileSystem(world)

\* Lines 400-403, in the slot the supervisor marked in use.
InitTxn ==
    /\ InitSrv
    /\ world \in Worlds /\ req \in Requests
    /\ tpc = "recv" /\ len = 0 /\ selector = <<>> /\ fpath = NullPtr
    /\ branch = "none" /\ sendret = FALSE /\ wire = <<>>
    /\ conn = [status |-> CONN_INUSE, sockfd |-> 1]
    /\ cur_line = NullPtr /\ cur_item = NullPtr /\ cur_map = <<>>
    /\ CatIdle

\* Lines 406-410: recv() fails or times out.
TRecvFail ==
    /\ tpc = "recv"
    /\ len' = 0 - 1
    /\ branch' = "recv_error"
    /\ tpc' = "close"
    /\ UNCHANGED <<world, req, selector, fpath, sendret, wire, conn,
                   srvVars, itemVars>>

\* Lines 406 and 411: recv() gives the bytes that arrived, 255 at most, 0
\* when the peer closed without sending.
TRecv ==
    /\ tpc = "recv"
    /\ len' = Min2(Len(req), RECV_MAX)
    /\ selector' = Take(req, len')
    /\ tpc' = "check_len"
    /\ UNCHANGED <<world, req, fpath, branch, sendret, wire, conn,
                   srvVars, itemVars>>

\* Lines 414-418.
TTooLong ==
    /\ tpc = "check_len"
    /\ len >= RECV_MAX
    /\ \E fails \in FailSets :
          LET r == client_send_error(fails, wire, CStr(selector), TooLongMsg)
          IN  wire' = r.out /\ sendret' = r.ret
    /\ branch' = "too_long"
    /\ tpc' = "close"
    /\ UNCHANGED <<world, req, len, selector, fpath, conn, srvVars, itemVars>>

\* Lines 421-427: the first TAB, CR or LF of the buffer becomes a NUL.
TruncateAtBreak(buf) ==
    LET k == IndexFrom(buf, 1, {TAB, CR, LF}) IN
    IF k > Len(buf) THEN buf ELSE [buf EXCEPT ![k] = NUL]

\* Lines 421-430.
TSanitize ==
    /\ tpc = "check_len"
    /\ len < RECV_MAX
    /\ selector' = path_sanitize(CStr(TruncateAtBreak(selector))).path
    /\ tpc' = "build"
    /\ UNCHANGED <<world, req, len, fpath, branch, sendret, wire, conn,
                   srvVars, itemVars>>

\* Lines 434-435.
TBuildRoot ==
    /\ tpc = "build"
    /\ selector = <<>>
    /\ fpath' = docroot
    /\ tpc' = "reply"
    /\ UNCHANGED <<world, req, len, selector, branch, sendret, wire, conn,
                   srvVars, itemVars>>

\* Line 436, path_concat giving the path.
TBuildPath ==
    /\ tpc = "build"
    /\ selector # <<>>
    /\ fpath' = path_concat(<<docroot, selector>>).buf
    /\ tpc' = "reply"
    /\ UNCHANGED <<world, req, len, selector, branch, sendret, wire, conn,
                   srvVars, itemVars>>

\* Lines 436-440, path_concat returning 0: realloc failed.
TBuildFail ==
    /\ tpc = "build"
    /\ selector # <<>>
    /\ branch' = "path_fail"
    /\ tpc' = "close"
    /\ UNCHANGED <<world, req, len, selector, fpath, sendret, wire, conn,
                   srvVars, itemVars>>

\* Line 449.
MapFile(path) == path_concat(<<path, GOPHERMAP>>).buf

\* Lines 453, 457 and 468 with lines 460 and 469: the "." follows a reply
\* that returned success, and what its send() returns is not looked at.
TerminateAlways(fails, r) ==
    Result(Send(fails, r.out, "term", Dot).out, r.ret)

Terminate(fails, r) ==
    IF r.ret THEN Result(Send(fails, r.out, "term", Dot).out, r.ret) ELSE r

\* Lines 443-454 and 460: the directory has a gophermap.
TReplyMap ==
    /\ tpc = "reply"
    /\ dir_exists(FS, fpath)
    /\ file_exists(FS, MapFile(fpath))
    /\ \E fails \in FailSets :
          LET r == Terminate(fails,
                       client_send_gophermap(fails, wire, FS,
                                             selector, MapFile(fpath)))
          IN  wire' = r.out /\ sendret' = r.ret
    /\ branch' = "map"
    /\ tpc' = "close"
    /\ UNCHANGED <<world, req, len, selector, fpath, conn, srvVars, itemVars>>

\* Lines 443-450 and 455-460: the directory has none.
TReplyDir ==
    /\ tpc = "reply"
    /\ dir_exists(FS, fpath)
    /\ ~file_exists(FS, MapFile(fpath))
    /\ \E fails \in FailSets :
          LET r == Terminate(fails,
                       client_send_dir(fails, wire, FS,
                                       selector, fpath, TRUE))
          IN  wire' = r.out /\ sendret' = r.ret
    /\ branch' = "dir"
    /\ tpc' = "close"
    /\ UNCHANGED <<world, req, len, selector, fpath, conn, srvVars, itemVars>>

\* Lines 449-450, path_concat returning 0.
TMapFail ==
    /\ tpc = "reply"
    /\ dir_exists(FS, fpath)
    /\ branch' = "map_fail"
    /\ tpc' = "close"
    /\ UNCHANGED <<world, req, len, selector, fpath, sendret, wire, conn,
                   srvVars, itemVars>>

\* Lines 461-464.
TReplyFile ==
    /\ tpc = "reply"
    /\ ~dir_exists(FS, fpath)
    /\ file_exists(FS, fpath)
    /\ \E fails \in FailSets :
          LET r == client_send_file(fails, wire, FS, fpath)
          IN  wire' = r.out /\ sendret' = r.ret
    /\ branch' = "file"
    /\ tpc' = "close"
    /\ UNCHANGED <<world, req, len, selector, fpath, conn, srvVars, itemVars>>

\* Lines 465-470.
TReplyNotFound ==
    /\ tpc = "reply"
    /\ ~dir_exists(FS, fpath)
    /\ ~file_exists(FS, fpath)
    /\ \E fails \in FailSets :
          LET r == Terminate(fails,
                       client_send_error(fails, wire, selector, NotFoundMsg))
          IN  wire' = r.out /\ sendret' = r.ret
    /\ branch' = "not_found"
    /\ tpc' = "close"
    /\ UNCHANGED <<world, req, len, selector, fpath, conn, srvVars, itemVars>>

\* Lines 472-484, close_conn.
TClose ==
    /\ tpc = "close"
    /\ fpath' = NullPtr
    /\ conn' = [status |-> SetFlag(conn.status, CONN_FINISHED),
                sockfd |-> SOCKERR]
    /\ tpc' = "done"
    /\ UNCHANGED <<world, req, len, selector, branch, sendret, wire,
                   srvVars, itemVars>>

NextTxn ==
    \/ TRecvFail \/ TRecv \/ TTooLong \/ TSanitize
    \/ TBuildRoot \/ TBuildPath \/ TBuildFail
    \/ TReplyMap \/ TReplyDir \/ TMapFail \/ TReplyFile \/ TReplyNotFound
    \/ TClose

SpecTxn == InitTxn /\ [][NextTxn]_vars

(***************************************************************************)
(* The same transaction over gophermaps made of a few lines.               *)
(***************************************************************************)
MaxMapLines == 3

\* Lines of a gophermap, without their line feed.
RawLines == {<<".">>, <<"*">>, <<"h", "i">>, <<>>, <<"0", "A", "\t", "a">>, <<".", " ">>, <<".", "\r">>}
MapTexts == UNION {[1 .. n -> RawLines] : n \in 0 .. MaxMapLines}

\* Requests for the gophermap's directory, for the root, for a file, for
\* nothing that exists, and one too long.
MapRequests == {<<"m">>, <<"m", "/">>, <<>>, <<"a">>, <<"m", "m">>, Rep("a", RECV_MAX)}

\* Lines 400-403, the document root holding the gophermap cur_map.
InitMap ==
    /\ InitSrv
    /\ world = "lines" /\ cur_map \in MapTexts /\ req \in MapRequests
    /\ tpc = "recv" /\ len = 0 /\ selector = <<>> /\ fpath = NullPtr
    /\ branch = "none" /\ sendret = FALSE /\ wire = <<>>
    /\ conn = [status |-> CONN_INUSE, sockfd |-> 1]
    /\ cur_line = NullPtr /\ cur_item = NullPtr
    /\ CatIdle

SpecMap == InitMap /\ [][NextTxn]_vars


(***************************************************************************)
(* gopher_item_parse and client_send_item on their own: a line is parsed   *)
(* into an item (lines 875-938), an item is sent under a client selector   *)
(* (lines 716-758).                                                        *)
(***************************************************************************)
\* conn->selector of the handler that sends.
ClientSelectors == {<<>>, <<"d">>, <<"d", "/">>, <<"m">>}

\* Items as client_send_dir, the wrappers and the parser hand them over.
Items ==
    [type : {"0", "i"},
     name : {NullPtr, <<"N">>},
     selector : {NullPtr, <<>>, <<"a">>, <<"/", "a">>, <<"a", "/", "b">>},
     hostname : {INVALID_HOST, NullPtr, <<"h">>},
     port : {INVALID_PORT, DEFAULT_PORT}]

\* The fields gophermap lines are made of here.
NameFields == {<<"0", "N">>, <<"1">>, <<>>}
SelectorFields == {<<>>, <<"a">>, <<"/", "a">>}
HostFields == {<<>>, <<"h">>}
PortFields == {<<"7", "0">>, <<"0", "7", "0">>, <<"0">>, <<"0", "0">>, <<"6", "5", "5", "3", "5">>, <<"6", "5", "5", "3", "6">>,
               <<"7", "0", "0", "0", "0">>}

\* A line of k bytes: a type, a long name, three TABs and the port "7".
LongLine(k) == <<"0">> \o Rep("n", k - 5) \o <<TAB, TAB, TAB, "7">>

ParseLines ==
    {n \o <<TAB>> \o s : n \in NameFields, s \in SelectorFields}
    \cup {n \o <<TAB>> \o s \o <<TAB>> \o h :
            n \in NameFields, s \in SelectorFields, h \in HostFields}
    \cup {n \o <<TAB>> \o s \o <<TAB>> \o h \o <<TAB>> \o p :
            n \in NameFields, s \in SelectorFields, h \in HostFields,
            p \in PortFields}
    \cup {LongLine(k) : k \in {LINE_BUF - 3, LINE_BUF - 2}}

\* Lines 400-403 for the sender; the line or the item is there.
InitItem ==
    /\ InitSrv
    /\ world = "plain" /\ req = <<>> /\ len = 0 /\ fpath = NullPtr
    /\ branch = "none" /\ sendret = FALSE /\ wire = <<>>
    /\ conn = [status |-> CONN_INUSE, sockfd |-> 1]
    /\ selector \in ClientSelectors
    /\ cur_map = <<>>
    /\ CatIdle
    /\ \/ tpc = "parse" /\ cur_line \in ParseLines /\ cur_item = NullPtr
       \/ tpc = "item" /\ cur_line = NullPtr /\ cur_item \in Items

\* What is left of the memory the name loop of line 896 runs into once it
\* is past the line's NUL: the bytes of a field, up to the next TAB or NUL.
Stray == {<<>>, <<"?">>}

\* Line 687, gopher_item_parse(buf), the name loop stopping inside the
\* line.
IParse ==
    /\ tpc = "parse"
    /\ ~gopher_item_parse(cur_line).overrun
    /\ cur_item' = gopher_item_parse(cur_line)
    /\ tpc' = "item"
    /\ UNCHANGED <<world, req, len, selector, fpath, branch, sendret, wire,
                   conn, cur_line, cur_map, catVars, srvVars>>

\* Line 687, the name loop running past the line's NUL (undefined): the
\* name is the line's bytes (strdup stops at the NUL), the other fields are
\* what memory holds.
IParseStray ==
    /\ tpc = "parse"
    /\ gopher_item_parse(cur_line).overrun
    /\ \E s \in Stray, h \in Stray \cup {DEFAULT_HOSTNAME},
          p \in {DEFAULT_PORT, INVALID_PORT} :
          cur_item' = [gopher_item_parse(cur_line) EXCEPT
                          !.selector = s, !.hostname = h, !.port = p]
    /\ tpc' = "item"
    /\ UNCHANGED <<world, req, len, selector, fpath, branch, sendret, wire,
                   conn, cur_line, cur_map, catVars, srvVars>>

\* The same, the read or the write faulting.
IParseCrash ==
    /\ tpc = "parse"
    /\ gopher_item_parse(cur_line).overrun
    /\ tpc' = "crashed"
    /\ UNCHANGED <<world, req, len, selector, fpath, branch, sendret, wire,
                   conn, cur_line, cur_item, cur_map, catVars,
                   srvVars>>

\* Line 697 (and 607, 784): client_send_item(conn, item).
ISend ==
    /\ tpc = "item"
    /\ \E fails \in FailSets :
          LET r == client_send_item(fails, wire, selector, cur_item)
          IN  wire' = r.out /\ sendret' = r.ret
    /\ tpc' = "sent"
    /\ UNCHANGED <<world, req, len, selector, fpath, branch, conn, cur_line,
                   cur_item, cur_map, catVars, srvVars>>

NextItem == IParse \/ IParseStray \/ IParseCrash \/ ISend

SpecItem == InitItem /\ [][NextItem]_vars

(***************************************************************************)
(* path_concat (lines 1080-1128) on its own: one call on a list of         *)
(* fragments.                                                              *)
(***************************************************************************)
MaxFrags == 3
Fragments == {<<>>, <<"a">>, <<"/">>, <<"/", "a">>, <<"a", "/">>, <<"a", "/", "/", "b">>}
FragLists == UNION {[1 .. n -> Fragments] : n \in 0 .. MaxFrags}

\* The caller's char *buf is not yet set; the fragments are there.
InitPath ==
    /\ InitSrv
    /\ tpc = "concat" /\ world = "plain" /\ req = <<>> /\ len = 0
    /\ selector = <<>> /\ fpath = NullPtr /\ branch = "none"
    /\ sendret = FALSE /\ wire = <<>>
    /\ conn = [status |-> 0, sockfd |-> SOCKERR]
    /\ cur_line = NullPtr /\ cur_item = NullPtr /\ cur_map = <<>>
    /\ cat_paths \in FragLists /\ cat_buf = NullPtr /\ cat_len = -1

\* Lines 1087-1127 with every realloc succeeding; without a fragment *buf
\* stays NULL (line 1087).
PConcat ==
    /\ tpc = "concat"
    /\ cat_buf' = IF cat_paths = <<>> THEN NullPtr
                  ELSE path_concat(cat_paths).buf
    /\ cat_len' = path_concat(cat_paths).len
    /\ tpc' = "joined"
    /\ UNCHANGED <<world, req, len, selector, fpath, branch, sendret, wire,
                   conn, cur_line, cur_item, cur_map, cat_paths, srvVars>>

\* Lines 1099-1101: realloc returns NULL at some fragment.
PConcatFail ==
    /\ tpc = "concat"
    /\ cat_paths # <<>>
    /\ cat_buf' = NullPtr
    /\ cat_len' = 0
    /\ tpc' = "nomem"
    /\ UNCHANGED <<world, req, len, selector, fpath, branch, sendret, wire,
                   conn, cur_line, cur_item, cur_map, cat_paths, srvVars>>

NextPath == PConcat \/ PConcatFail

SpecPath == InitPath /\ [][NextPath]_vars


(***************************************************************************)
(* Claims about the supervisor, the handlers and shutdown.                 *)
(***************************************************************************)

\* C1: in every reachable state the handler threads that were spawned and
\* have not yet exited number at most MAX_CONNECTIONS; a further client is
\* never served concurrently.
C1_ConcurrencyBound == Cardinality(LiveHandlers) <= MAX_CONNECTIONS

\* A full table while one more client is still to connect.
C1_Witness ==
    /\ Cardinality(LiveHandlers) = MAX_CONNECTIONS
    /\ nextClient <= MaxClients
    /\ pc = "scan_test"
    /\ \A s \in Slots : SlotInUse(s)

StepOf(s, from, to) ==
    /\ Lifecycle(connections[s].status) = from
    /\ Lifecycle(connections'[s].status) = to
LifecycleChanges(s) ==
    Lifecycle(connections'[s].status) # Lifecycle(connections[s].status)

\* C2 as stated: every slot starts FREE and its lifecycle state changes only
\* by FREE->IN_USE, IN_USE->FINISHED and FINISHED->FREE.
C2_OnlyThreeTransitions ==
    /\ \A s \in Slots : Lifecycle(connections[s].status) = FREE
    /\ [][\A s \in Slots :
            LifecycleChanges(s) =>
                \/ StepOf(s, FREE, IN_USE)
                \/ StepOf(s, IN_USE, FINISHED)
                \/ StepOf(s, FINISHED, FREE)]_vars

\* The statements of the code that write a slot's status.
ByAccept(s) == pc = "set_inuse" /\ pc' = "create" /\ i = s
ByHandlerExit(s) ==
    \E c \in Clients :
        hpc[c] = "mark_write" /\ hpc'[c] = "exiting" /\ hslot[c] = s
ByReap(s) == pc = "reap_clear" /\ pc' = "reap_test" /\ i = s
ByStop(s) == spc = "stop_test" /\ spc' = "stop_close" /\ si = s
ByCreateFailure(s) == pc = "create_free" /\ pc' = "loop_test" /\ i = s
ByAcceptFailure(s) == pc = "accept_fail" /\ pc' = "loop_test" /\ i = s

\* C2 as amended: every slot starts FREE and its lifecycle state changes
\* only by FREE->IN_USE on accept, IN_USE->FINISHED when its handler exits,
\* FINISHED->FREE on reap, and besides these: IN_USE->FREE when thread
\* creation fails, IN_USE->FREE and FINISHED->FREE when server_stop releases
\* the slot, FREE->FINISHED when a handler exits after server_stop released
\* its slot, and FINISHED->FREE when accept fails on such a slot after
\* shutdown.  FINISHED->IN_USE never occurs.
C2_Transitions ==
    /\ \A s \in Slots : Lifecycle(connections[s].status) = FREE
    /\ [][\A s \in Slots :
            LifecycleChanges(s) =>
                \/ StepOf(s, FREE, IN_USE) /\ ByAccept(s)
                \/ StepOf(s, IN_USE, FINISHED) /\ ByHandlerExit(s)
                \/ StepOf(s, FINISHED, FREE) /\ ByReap(s)
                \/ StepOf(s, IN_USE, FREE) /\ ByCreateFailure(s)
                \/ StepOf(s, IN_USE, FREE) /\ ByStop(s)
                \/ StepOf(s, FINISHED, FREE) /\ ByStop(s)
                \/ StepOf(s, FREE, FINISHED) /\ ByHandlerExit(s) /\ ~running
                \/ StepOf(s, FINISHED, FREE) /\ ByAcceptFailure(s)
                   /\ ~running]_vars

\* server_stop has released a slot whose handler was running, and the
\* handler has since marked the released slot FINISHED.
C2_Witness ==
    \E s \in Slots :
        /\ connections[s].status = CONN_FINISHED
        /\ ~running
        /\ \E c \in Clients : hslot[c] = s /\ hpc[c] \in {"exiting", "exited"}

\* server_stop has been called and has returned.
StopReturned == ~running /\ spc = "none"

\* C3: whenever server_stop has returned, the listening socket is closed
\* and no handler thread exists (so none was created after it returned).
C3_ShutdownComplete ==
    (StopReturned /\ ProcAlive) => (~listenOpen /\ LiveHandlers = {})

HandlerTerminated(c) == hpc[c] \in {"exited", "joined", "killed"}
\* The handler ran close_conn to its end: its socket is closed and it went
\* through line 482 before pthread_exit.
CleanedUp(c) == hpc[c] \in {"exited", "joined"} /\ ncloses[c] >= 1

\* C5 (safety half): every handler that has terminated closed its client
\* socket and marked its slot FINISHED before it went.
C5_HandlerCleansUp ==
    \A c \in Clients : HandlerTerminated(c) => CleanedUp(c)

HasDotDot(s) == \E k \in 1 .. Len(s) - 1 : s[k] = "." /\ s[k + 1] = "."

\* The selector has been through lines 421-430.
Sanitized ==
    \/ tpc \in {"build", "reply"}
    \/ branch \in {"path_fail", "map_fail", "dir", "map", "file",
                   "not_found"}

\* C4: whatever bytes the client sends, the selector left by the truncation
\* at TAB/CR/LF and by path_sanitize has no ".." in it, the path the handler
\* resolves is docroot for the empty selector and the join of docroot and
\* the selector otherwise, and that path made canonical is docroot or lies
\* below it; so does the node the file system gives for it.
C4_TraversalSafe ==
    /\ Sanitized => ~HasDotDot(selector)
    /\ fpath # NullPtr =>
          /\ fpath = IF selector = <<>> THEN docroot
                     ELSE docroot \o <<PATH_SEPARATOR>> \o selector
          /\ Within(Canonical(docroot), Canonical(fpath))
          /\ LET n == Resolve(FileSystem(world), fpath) IN
             n # NoEnt => Within(Canonical(docroot), n)

\* A request with ".." in it whose selector was cut and whose path was built.
C4_Witness ==
    /\ tpc = "reply"
    /\ HasDotDot(req)
    /\ selector # <<>>
    /\ fpath = docroot \o <<PATH_SEPARATOR>> \o selector

\* C7: when the read of the request fails, times out or returns zero bytes,
\* the handler sends nothing, resolves nothing in the file system and goes
\* straight to closing the socket.
C7_ReadFailureSilent ==
    (tpc # "recv" /\ len <= 0) =>
        /\ tpc \in {"close", "done"}
        /\ branch = "recv_error"
        /\ wire = <<>>

\* The request is a selector of n bytes followed by CR LF.
SelectorWithCRLF(n) ==
    /\ Len(req) = n + 2
    /\ req[n + 1] = CR /\ req[n + 2] = LF
    /\ \A k \in 1 .. n : req[k] \notin {TAB, CR, LF, NUL}

\* The transaction resolved the selector and answered with a menu, a file
\* or the not-found error.
Processed == branch \in {"dir", "map", "file", "not_found"}

\* The record of the selector-too-long error item.
TooLongLine ==
    <<"3">> \o TooLongMsg \o <<TAB, TAB>> \o INVALID_HOST \o <<TAB>>
    \o Decimal(INVALID_PORT) \o <<CR, LF>>

\* C8: a request whose selector is exactly 254 bytes, followed by CR LF, is
\* processed normally; a request of 255 bytes or more is answered with the
\* one error item "Selector string longer than 255 characters" and nothing
\* else before the close.
C8_LengthBoundary ==
    (tpc = "done" /\ len >= 0) =>
        /\ SelectorWithCRLF(RECV_MAX - 1) => Processed
        /\ Len(req) >= RECV_MAX =>
              /\ Len(wire) = 1
              /\ wire[1].what = "item"
              /\ wire[1].data = TooLongLine

LastIsTerm == wire # <<>> /\ wire[Len(wire)].what = "term"
Terms == {k \in 1 .. Len(wire) : wire[k].what = "term"}

\* C9, as stated: after every directory response and after every error
\* response (not found, too long) the last thing sent is the terminator
\* ".", and a file response has no terminator.
C9_TerminatorAlways ==
    tpc = "done" =>
        /\ branch \in {"dir", "map", "not_found", "too_long"} => LastIsTerm
        /\ branch = "file" => Terms = {}

\* C9, amended: the terminator "." is the last thing sent, and is sent
\* once, after a directory response whose rendering returned success and
\* after a not-found error item whose send succeeded; no terminator is sent
\* after a rendering that returned failure, after a not-found error item
\* whose send failed, after the too-long error item, or in a file response.
C9_TerminatorOnSuccess ==
    tpc = "done" =>
        /\ (branch \in {"dir", "map", "not_found"} /\ sendret) =>
              LastIsTerm /\ Terms = {Len(wire)}
        /\ (branch \in {"dir", "map", "not_found"} /\ ~sendret) => Terms = {}
        /\ branch = "too_long" => Terms = {} /\ Len(wire) = 1
        /\ branch = "file" => Terms = {}

\* A listing that went through, terminator and all.
C9_Witness ==
    /\ tpc = "done"
    /\ branch = "dir"
    /\ sendret
    /\ Len(wire) > 3
    /\ LastIsTerm

TabsOf(line) == {k \in 1 .. Len(line) : line[k] = TAB}

\* <type><name> TAB <selector> TAB <host> TAB <decimal port> CR LF, of 255
\* bytes at most, with no TAB, CR or LF inside a field.
WellFormed(line) ==
    /\ Len(line) <= LINE_BUF - 1
    /\ Len(line) >= 6
    /\ Cardinality(TabsOf(line)) = 3
    /\ line[Len(line) - 1] = CR /\ line[Len(line)] = LF
    /\ \A k \in 2 .. Len(line) - 2 : line[k] \notin {CR, LF}
    /\ LET t == CHOOSE k \in TabsOf(line) : \A h \in TabsOf(line) : h <= k
       IN  /\ t < Len(line) - 2
           /\ \A k \in t + 1 .. Len(line) - 2 : line[k] \in Digits

\* The records of the entries that client_send_dir lists under fpath.
ListedLines ==
    LET fs == FileSystem(world)
        node == Resolve(fs, fpath)
    IN  {ItemLine(selector,
                  EntryItem(fs[Append(node, fs[node].entries[k])].kind
                            = "dir", fs[node].entries[k])) :
            k \in {j \in DOMAIN fs[node].entries :
                      ~SkipsEntry(fs[node].entries[j])}}

\* C10: every menu record put on the wire is at most 255 bytes with its
\* CRLF and has the shape <type><name> TAB <selector> TAB <host> TAB
\* <decimal port> CRLF with no TAB, CR or LF inside name, selector or host;
\* an item whose record would be longer is sent neither whole nor cut, and
\* the operation reports failure.
C10_WireFraming ==
    /\ \A k \in 1 .. Len(wire) :
          wire[k].what = "item" => WellFormed(wire[k].data)
    /\ (tpc = "close" /\ branch = "dir") =>
          \A line \in ListedLines :
             LineTooLong(line) =>
                /\ ~sendret
                /\ \A k \in 1 .. Len(wire) :
                      wire[k].data # Take(line, Len(wire[k].data))

(***************************************************************************)
(* Claims about listings and gophermaps.                                   *)
(***************************************************************************)
\* The field of a record between the first TAB after its type byte and the
\* next one.
SelectorField(line) ==
    LET t1 == IndexFrom(line, 2, {TAB})
        t2 == IndexFrom(line, t1 + 1, {TAB})
    IN  SubSeq(line, t1 + 1, t2 - 1)

\* C11: in an auto directory listing, requested under any client selector,
\* no record sent has a selector field that begins with "." or is
\* "gophermap".
C11_HiddenFiles ==
    branch = "dir" =>
        \A k \in 1 .. Len(wire) :
            wire[k].what = "item" =>
                LET s == SelectorField(wire[k].data) IN
                /\ s = <<>> \/ s[1] # "."
                /\ s # GOPHERMAP

(***************************************************************************)
(* Claims about the sender and the parser, checked under SpecItem.         *)
(***************************************************************************)
\* Two selectors with one separator between them.
Join(a, b) ==
    IF a # <<>> /\ a[Len(a)] = PATH_SEPARATOR THEN a \o b
    ELSE a \o <<PATH_SEPARATOR>> \o b

\* The item's own selector, empty when it is NULL.
OwnSelector(it) == IF it.selector = NullPtr THEN <<>> ELSE it.selector

\* A record of the item went on the wire.
ItemSent == tpc = "sent" /\ Len(wire) = 1

\* C12: the selector field of a sent item is the join of the client's
\* selector and the item's selector exactly when the client's selector is
\* not empty, the item's selector is not NULL and does not begin with "/";
\* otherwise it is the item's own selector, empty when NULL.
C12_SelectorRewrite ==
    ItemSent =>
        LET joins == /\ selector # <<>>
                     /\ cur_item.selector # NullPtr
                     /\ \/ cur_item.selector = <<>>
                        \/ cur_item.selector[1] # PATH_SEPARATOR
        IN  SelectorField(wire[1].data) =
                IF joins THEN Join(selector, cur_item.selector)
                ELSE OwnSelector(cur_item)

\* A relative selector sent under the client selector "d".
C12_Witness ==
    /\ ItemSent
    /\ selector = <<"d">>
    /\ cur_item.selector = <<"a">>
    /\ SelectorField(wire[1].data) = <<"d", "/", "a">>

(***************************************************************************)
(* More claims about one transaction, checked under SpecTxn.               *)
(***************************************************************************)
\* The bytes of the sends, in order.
DataOf(w) == [k \in 1 .. Len(w) |-> w[k].data]
AllOk(w) == \A k \in 1 .. Len(w) : w[k].ok

\* The record of an info entry.
InfoRecord(name) ==
    <<"i">> \o name \o <<TAB, TAB>> \o <<"n", "u", "l", "l", ".", "h", "o", "s", "t">> \o <<TAB, "0", CR, LF>>

\* The record of directory entry e with the selector field sel.
EntryRecord(e, isdir, sel) ==
    <<IF isdir THEN "1" ELSE "0">>
    \o Take(e \o <<IF isdir THEN "/" ELSE " ">>, 70)
    \o <<TAB>> \o sel \o <<TAB>> \o <<"l", "o", "c", "a", "l", "h", "o", "s", "t">> \o <<TAB>> \o <<"7", "0">>
    \o <<CR, LF>>

Visible(e) == e[1] # "." /\ e # GOPHERMAP

\* The entries of the directory the request names that are not hidden.
VisibleEntries ==
    LET fs == FileSystem(world)
        node == Resolve(fs, IF selector = <<>> THEN docroot
                            ELSE Join(docroot, selector))
    IN  SelectSeq(fs[node].entries, Visible)

EntryIsDir(e) ==
    LET fs == FileSystem(world)
        node == Resolve(fs, IF selector = <<>> THEN docroot
                            ELSE Join(docroot, selector))
    IN  fs[Append(node, e)].kind = "dir"

\* An auto listing that went through without a failure.
ListingDone == tpc = "done" /\ branch = "dir" /\ sendret /\ AllOk(wire)

\* C13, as stated: an auto listing is two info entries ("[selector]:" and
\* an empty one), then for each visible entry a record whose selector field
\* is the entry's basename, with the default host and port, then ".".
C13_ListingBasename ==
    ListingDone =>
        DataOf(wire) =
            <<InfoRecord(<<"[">> \o selector \o <<"]", ":">>),
              InfoRecord(<<>>)>>
            \o [k \in 1 .. Len(VisibleEntries) |->
                  EntryRecord(VisibleEntries[k], EntryIsDir(VisibleEntries[k]),
                              VisibleEntries[k])]
            \o <<Dot>>

\* C13, amended: the selector field of an entry's record is the entry's
\* basename under the empty request selector and the join of the request
\* selector and the basename otherwise; the rest as stated.
C13_ListingJoined ==
    ListingDone =>
        DataOf(wire) =
            <<InfoRecord(<<"[">> \o selector \o <<"]", ":">>),
              InfoRecord(<<>>)>>
            \o [k \in 1 .. Len(VisibleEntries) |->
                  EntryRecord(VisibleEntries[k], EntryIsDir(VisibleEntries[k]),
                              IF selector = <<>> THEN VisibleEntries[k]
                              ELSE Join(selector, VisibleEntries[k]))]
            \o <<Dot>>

\* The request "d" for a directory that holds a and .h.
C13_Witness ==
    /\ ListingDone
    /\ world = "plain"
    /\ selector = <<"d">>
    /\ DataOf(wire) = <<<<"i", "[", "d", "]", ":", "\t", "\t", "n", "u", "l", "l", ".", "h", "o", "s", "t", "\t", "0", "\r", "\n">>,
                        <<"i", "\t", "\t", "n", "u", "l", "l", ".", "h", "o", "s", "t", "\t", "0", "\r", "\n">>,
                        <<"0", "a", " ", "\t", "d", "/", "a", "\t", "l", "o", "c", "a", "l", "h", "o", "s", "t", "\t", "7", "0", "\r", "\n">>,
                        <<".">>>>

(***************************************************************************)
(* Claims about gophermaps, checked under SpecMap.                         *)
(***************************************************************************)
IsItemSend(e) == e.what = "item"
\* The records sent, without the terminator.
ItemData(w) == DataOf(SelectSeq(w, IsItemSend))

\* A line that is exactly ".", ended by LF or by CR LF.
IsHalt(l) == l \in {<<".">>, <<".", "\r">>}
IsStar(l) == l = <<"*">>

\* The listing of docroot/m, which holds gophermap, a and .h.
StarRecords == <<EntryRecord(<<"a">>, FALSE, Join(selector, <<"a">>))>>

\* The records one line of RawLines stands for.
RecordsOfLine(l) ==
    IF IsStar(l) THEN StarRecords
    ELSE IF l = <<"0", "A", "\t", "a">>
         THEN <<<<"0", "A", "\t">> \o Join(selector, <<"a">>)
                \o <<"\t", "l", "o", "c", "a", "l", "h", "o", "s", "t", "\t", "7", "0", "\r", "\n">>>>
         ELSE <<InfoRecord(l)>>

RECURSIVE RecordsOf(_)
RecordsOf(lines) ==
    IF lines = <<>> THEN <<>>
    ELSE RecordsOfLine(Head(lines)) \o RecordsOf(Tail(lines))

\* The index of the first "." line, one past the last line without one.
HaltAt(lines) ==
    LET hits == {k \in 1 .. Len(lines) : IsHalt(lines[k])} IN
    IF hits = {} THEN Len(lines) + 1
    ELSE CHOOSE k \in hits : \A h \in hits : k <= h

\* The gophermap cur_map was rendered and the handler is through.
MapDone == tpc = "done" /\ branch = "map"

SanitizeInput == CStr(TruncateAtBreak(Take(req, len)))

\* The prefix of s that ends just before its first "..", s if it has none.
BeforeDotDot(s) ==
    LET hits == {k \in 1 .. Len(s) - 1 : s[k] = "." /\ s[k + 1] = "."} IN
    IF hits = {} THEN s
    ELSE SubSeq(s, 1, (CHOOSE k \in hits : \A h \in hits : k <= h) - 1)

\* C16: path_sanitize leaves the prefix of its argument that ends just
\* before the first "..", the whole argument when there is none; it returns
\* true exactly when it changed the argument; applied to its own result it
\* changes nothing.
C16_SanitizePrefix ==
    tpc = "build" =>
        LET r == path_sanitize(SanitizeInput) IN
        /\ selector = r.path
        /\ r.path = BeforeDotDot(SanitizeInput)
        /\ r.ret <=> (r.path # SanitizeInput)
        /\ path_sanitize(r.path) = [path |-> r.path, ret |-> FALSE]

\* A selector with bytes before its "..".
C16_Witness ==
    /\ tpc = "build"
    /\ HasDotDot(SanitizeInput)
    /\ selector # <<>>
    /\ selector # SanitizeInput

\* The bytes of a line after its last TAB.
PortField(l) ==
    LET t == CHOOSE k \in TabsOf(l) : \A h \in TabsOf(l) : h <= k
    IN  SubSeq(l, t + 1, Len(l))

AllDigits(p) == p # <<>> /\ \A k \in 1 .. Len(p) : p[k] \in Digits

RECURSIVE PortValue(_)
\* The number a string of digits stands for.
PortValue(p) ==
    IF p = <<>> THEN 0
    ELSE PortValue(SubSeq(p, 1, Len(p) - 1)) * 10 + DigitVal(p[Len(p)])

\* A line of three TABs with a numeric port was parsed and its item sent
\* under the empty client selector.
RoundTrip ==
    /\ tpc = "sent"
    /\ cur_line # NullPtr
    /\ selector = <<>>
    /\ Cardinality(TabsOf(cur_line)) = 3
    /\ AllDigits(PortField(cur_line))

Accepting == pc \in {"accept", "accept_store"}
AllInUse == \A s \in Slots : Lifecycle(Conn(s).status) = IN_USE

\* C18: the supervisor calls accept() only for a slot that is not IN_USE,
\* and binds the connection to that slot; while every slot is IN_USE it is
\* not in accept().
C18_AcceptNeedsFreeSlot ==
    /\ Accepting => i \in Slots /\ Lifecycle(Conn(i).status) # IN_USE
    /\ pc = "set_inuse" =>
          /\ Lifecycle(Conn(i).status) # IN_USE
          /\ Conn(i).sockfd = accepted
    /\ AllInUse => ~Accepting

\* accept() called for the second slot while the first serves a client.
C18_Witness ==
    /\ pc = "accept"
    /\ i = 1
    /\ Lifecycle(Conn(0).status) = IN_USE
    /\ running

\* C19: a call of server_stop after an earlier one has returned changes no
\* state, closes no socket and joins no thread; running never goes back
\* from false to true.
C19_StopIdempotent ==
    [][ /\ (sigcount >= 2 /\ ServerStop) =>
              UNCHANGED <<running, server_socket, connections, listenOpen,
                          ncloses, hpc>>
        /\ running' => running ]_vars

\* C20: while the server keeps running, a slot that has become FINISHED is
\* eventually joined and released to FREE by the reap scan, whether or not a
\* further client connects: accept() returns when its timeout expires.
C20_FinishedReaped ==
    \A s \in Slots :
        (running /\ Lifecycle(Conn(s).status) = FINISHED)
            ~> (~running \/ Lifecycle(Conn(s).status) = FREE)

\* No client is left to connect, no SIGINT was delivered, and every handler
\* has been joined and its slot released: the reap scan did it.
C20_Witness ==
    /\ running /\ sigcount = 0 /\ nextClient > MaxClients
    /\ \A c \in Clients :
          hpc[c] = "joined" /\ Lifecycle(Conn(hslot[c]).status) = FREE

\* A send() of a menu record that failed; the terminator's own send is
\* not one.
FailedRecords == {k \in 1 .. Len(wire) : wire[k].what = "item" /\ ~wire[k].ok}
Rendered == tpc \in {"close", "done"} /\ branch \in {"dir", "map"}

\* C21: when a send of a menu record fails while a directory listing or a
\* gophermap is rendered, the handler sends no "." terminator afterwards.
C21_SendFailureAborts ==
    (Rendered /\ FailedRecords # {}) => Terms = {}

\* The string path_concat left in *buf.
CatResult == IF cat_buf = NullPtr THEN <<>> ELSE cat_buf

\* The places of s where a separator follows a separator.
Doubled(s) ==
    {k \in 1 .. Len(s) - 1 :
        s[k] = PATH_SEPARATOR /\ s[k + 1] = PATH_SEPARATOR}

RECURSIVE DoubledInside(_)
DoubledInside(frags) ==
    IF frags = <<>> THEN 0
    ELSE Cardinality(Doubled(Head(frags))) + DoubledInside(Tail(frags))

RECURSIVE Flat(_)
Flat(frags) == IF frags = <<>> THEN <<>> ELSE Head(frags) \o Flat(Tail(frags))

\* s without the bytes at the places in drop.
Without(s, drop) ==
    LET keep == {k \in 1 .. Len(s) : k \notin drop}
        Nth(n) == CHOOSE k \in keep :
                      Cardinality({j \in keep : j <= k}) = n
    IN  [n \in 1 .. Cardinality(keep) |-> s[Nth(n)]]

\* The result is the fragments in order with separators put in between.
InOrder ==
    \E drop \in SUBSET {k \in 1 .. Len(CatResult) :
                           CatResult[k] = PATH_SEPARATOR} :
        /\ Cardinality(drop) < Len(cat_paths) \/ drop = {}
        /\ Without(CatResult, drop) = Flat(cat_paths)

\* C22: path_concat yields the fragments in order, its result holds no
\* doubled separator that was not already inside a fragment, and it returns
\* the result's length plus one, 0 only when an allocation failed.
C22_ConcatSeparators ==
    /\ tpc = "joined" =>
          /\ InOrder
          /\ Cardinality(Doubled(CatResult)) = DoubledInside(cat_paths)
          /\ cat_len = Len(CatResult) + 1
    /\ cat_len = 0 => tpc = "nomem"

\* The clients whose connection accept() has returned.
AcceptedClients == {c \in Clients : c < nextClient}

\* C23: every accepted client socket is closed exactly once: no descriptor
\* is closed twice, and when the process has exited none was left unclosed.
C23_ClosedExactlyOnce ==
    /\ \A c \in Clients : ncloses[c] <= 1
    /\ pc = "exit" => \A c \in AcceptedClients : ncloses[c] = 1

\* The parser has run on the line client_send_gophermap handed to it.
Parsed == cur_line # NullPtr /\ tpc \in {"item", "sent", "crashed"}

\* The longest field the parser copies into its buffer, with its NUL.
WrittenBytes(line) ==
    LET p == gopher_item_parse(line) IN
    1 + Len(CHOOSE f \in {p.name, p.selector, p.hostname} :
                \A g \in {p.name, p.selector, p.hostname} : Len(g) <= Len(f))

\* C24: on every gophermap line handed to gopher_item_parse the read
\* position stays at or before the line's terminating NUL and the write
\* position stays inside the 256-byte field buffer.
C24_ParserInBounds ==
    Parsed =>
        /\ ~gopher_item_parse(cur_line).overrun
        /\ tpc # "crashed"
        /\ WrittenBytes(cur_line) <= LINE_BUF

\* The handler threads started on slot s and not yet joined.
Unjoined(s) ==
    {c \in Clients : hslot[c] = s /\ hpc[c] \in HLive \cup {"exited"}}

\* The supervisor has stored a newly accepted socket in slot i (line 356)
\* and has not yet started its handler.
StoredSocket == pc \in {"set_inuse", "create"}

\* C25: a slot is bound to at most one live handler at a time: a slot never
\* has two unjoined handler threads, and the slot the supervisor has stored
\* a newly accepted socket in has none.
C25_OneHandlerPerSlot ==
    /\ \A s \in Slots : Cardinality(Unjoined(s)) <= 1
    /\ StoredSocket => Unjoined(i) = {}

\* A slot is in use a second time: its first handler has been joined and
\* its second is running.
C25_Witness ==
    \E s \in Slots : \E c, d \in Clients :
        /\ hslot[c] = s /\ hpc[c] = "joined"
        /\ hslot[d] = s /\ hpc[d] \in HLive
        /\ Cardinality(Unjoined(s)) = 1

====
